---------------------------- MODULE Spec2Model ----------------------------
(***************************************************************************)
(* Rfc822DateParser (src/src/rfc822.rs): the RFC 822 / RFC 5322 date-time  *)
(* grammar on top of the backtracking scanner Rfc5322Parser.               *)
(*                                                                         *)
(* Text is a sequence of one-character strings.  A u32 is kept as its two  *)
(* 16-bit halves [hi, lo], because the values the parser handles reach     *)
(* 2^32 - 1; an i32 is an integer of -2^31 .. 2^31 - 1.                    *)
(***************************************************************************)
EXTENDS Integers, Sequences, FiniteSets, TLC

VARIABLES
    s,            \* Rfc5322Parser: the input buffer
    pos,          \* Rfc5322Parser: the cursor, an offset into s
    pos_stack,    \* Rfc5322Parser: the saved cursor offsets
    pc,           \* where consume_datetime stands
    calls,        \* consume_datetime calls made on this parser
    day_of_month, \* consume_datetime locals, in the order they are bound
    month,
    i,            \* the year token's value, before the century rule
    year,
    time,
    tz_offset,
    result        \* what the last consume_datetime call produced

vars == <<s, pos, pos_stack, pc, calls, day_of_month, month, i, year, time,
          tz_offset, result>>

(***************************************************************************)
(* Characters                                                              *)
(***************************************************************************)
DigitChars == <<"0", "1", "2", "3", "4", "5", "6", "7", "8", "9">>

UpperChars == <<"A", "B", "C", "D", "E", "F", "G", "H", "I", "J", "K", "L", "M",
                "N", "O", "P", "Q", "R", "S", "T", "U", "V", "W", "X", "Y", "Z">>

LowerChars == <<"a", "b", "c", "d", "e", "f", "g", "h", "i", "j", "k", "l", "m",
                "n", "o", "p", "q", "r", "s", "t", "u", "v", "w", "x", "y", "z">>

Range(f) == {f[k] : k \in DOMAIN f}

Digits == Range(DigitChars)

Letters == Range(UpperChars) \cup Range(LowerChars)

DigitVal(c) == CHOOSE d \in 0..9 : DigitChars[d + 1] = c

\* char::to_ascii_lowercase / str::to_ascii_lowercase
LowerChar(c) ==
    IF \E k \in 1..26 : UpperChars[k] = c
    THEN LowerChars[CHOOSE k \in 1..26 : UpperChars[k] = c]
    ELSE c

to_ascii_lowercase(w) == [k \in 1..Len(w) |-> LowerChar(w[k])]

\* char::is_whitespace, on the characters of the model's alphabet
Whitespace == {" ", "\t", "\r", "\n"}

\* The characters of a word: the callers read "10:01:59" as word ':' word ':'
\* word and "Mon," as a word and a comma (rfc822.rs 73, 86, 158, 247), so a
\* word is a run of atom characters and ends at whitespace, ',' and ':'.
AtomChars == Letters \cup Digits \cup {"+", "-"}

(***************************************************************************)
(* The scanner, Rfc5322Parser                                              *)
(***************************************************************************)
Slice(t, from, to) == [k \in 1..(to - from) |-> t[from + k]]

push_position(p, stack) == Append(stack, p)

\* pop_position: the cursor goes back to the offset saved last.  The callers
\* of this module never pop an empty stack.
pop_position(stack) ==
    [pos |-> stack[Len(stack)], pos_stack |-> SubSeq(stack, 1, Len(stack) - 1)]

eof(t, p) == p >= Len(t)

consume_char(t, p) == IF eof(t, p) THEN p ELSE p + 1

assert_char(t, p, c) == ~eof(t, p) /\ t[p + 1] = c

RECURSIVE consume_while(_, _, _)
consume_while(t, p, chars) ==
    IF ~eof(t, p) /\ t[p + 1] \in chars
    THEN consume_while(t, p + 1, chars)
    ELSE p

\* A line fold is CR LF followed by a space or a tab.
RECURSIVE consume_linear_whitespace(_, _)
consume_linear_whitespace(t, p) ==
    IF ~eof(t, p) /\ t[p + 1] \in {" ", "\t"}
    THEN consume_linear_whitespace(t, p + 1)
    ELSE IF p + 3 <= Len(t) /\ t[p + 1] = "\r" /\ t[p + 2] = "\n"
            /\ t[p + 3] \in {" ", "\t"}
         THEN consume_linear_whitespace(t, p + 3)
         ELSE p

\* consume_word(false): the word at the cursor, or none when the cursor is at
\* the end of the input or not at a word character.
consume_word(t, p) ==
    LET q == consume_while(t, p, AtomChars)
    IN  [some |-> q > p, word |-> Slice(t, p, q), pos |-> q]

(***************************************************************************)
(* Numbers                                                                 *)
(***************************************************************************)
U32(n) == [hi |-> n \div 65536, lo |-> n % 65536]

Small(v) == v.hi = 0

\* `as i32` on a u32: the same 32 bits read as two's complement
AsI32(v) ==
    IF v.hi < 32768 THEN v.hi * 65536 + v.lo
    ELSE (v.hi - 65536) * 65536 + v.lo

NoNumber == [ok |-> FALSE, hi |-> 0, lo |-> 0]

\* The decimal digits w added to acc, failing on a non-digit and on a value
\* of 2^32 or more.
RECURSIVE Accumulate(_, _)
Accumulate(w, acc) ==
    IF w = <<>> THEN acc
    ELSE IF Head(w) \notin Digits THEN NoNumber
    ELSE LET l == acc.lo * 10 + DigitVal(Head(w))
             h == acc.hi * 10 + l \div 65536
         IN  IF h >= 65536 THEN NoNumber
             ELSE Accumulate(Tail(w), [ok |-> TRUE, hi |-> h, lo |-> l % 65536])

Magnitude(w) ==
    IF w = <<>> THEN NoNumber
    ELSE Accumulate(w, [ok |-> TRUE, hi |-> 0, lo |-> 0])

\* str::parse::<u32>: an optional '+', then digits, below 2^32
ParseU32(w) ==
    IF w # <<>> /\ Head(w) = "+" THEN Magnitude(Tail(w))
    ELSE Magnitude(w)

MinI32 == -2147483647 - 1

\* str::parse::<i32>: an optional '+' or '-', then digits, in -2^31 .. 2^31 - 1
ParseI32(w) ==
    LET neg == w # <<>> /\ Head(w) = "-"
        m   == IF w # <<>> /\ Head(w) \in {"+", "-"}
               THEN Magnitude(Tail(w)) ELSE Magnitude(w)
    IN  IF ~m.ok THEN [ok |-> FALSE, val |-> 0]
        ELSE IF m.hi < 32768
             THEN [ok |-> TRUE,
                   val |-> IF neg THEN -(m.hi * 65536 + m.lo)
                           ELSE m.hi * 65536 + m.lo]
        ELSE IF neg /\ m.hi = 32768 /\ m.lo = 0
             THEN [ok |-> TRUE, val |-> MinI32]
        ELSE [ok |-> FALSE, val |-> 0]

\* i32 `/` and `%`: the quotient is rounded toward zero
TruncDiv(a, b) ==
    LET q == a \div b IN IF a < 0 /\ a % b # 0 THEN q + 1 ELSE q

TruncRem(a, b) == a - b * TruncDiv(a, b)


(***************************************************************************)
(* Tables                                                                  *)
(***************************************************************************)
DAYS_OF_WEEK ==
    {<<"m", "o", "n">>, <<"t", "u", "e">>, <<"w", "e", "d">>, <<"t", "h", "u">>,
     <<"f", "r", "i">>, <<"s", "a", "t">>, <<"s", "u", "n">>}

MONTHS ==
    <<<<"j", "a", "n">>, <<"f", "e", "b">>, <<"m", "a", "r">>, <<"a", "p", "r">>,
      <<"m", "a", "y">>, <<"j", "u", "n">>, <<"j", "u", "l">>, <<"a", "u", "g">>,
      <<"s", "e", "p">>, <<"o", "c", "t">>, <<"n", "o", "v">>, <<"d", "e", "c">>>>

\* TZ_DATA as a set of (key, offset) entries
TZ_DATA ==
    {<<<<"Z">>, 0>>,
     <<<<"U", "T">>, 0>>,
     <<<<"G", "M", "T">>, 0>>,
     <<<<"P", "S", "T">>, -28800>>,
     <<<<"P", "D", "T">>, -25200>>,
     <<<<"M", "S", "T">>, -25200>>,
     <<<<"M", "D", "T">>, -21600>>,
     <<<<"C", "S", "T">>, -21600>>,
     <<<<"C", "D", "T">>, -18000>>,
     <<<<"E", "S", "T">>, -18000>>,
     <<<<"E", "D", "T">>, -14400>>}

TzKeys == {e[1] : e \in TZ_DATA}

\* TzGet matching the key in any letter case
TzGet_any_case(key) ==
    IF \E e \in TZ_DATA : to_ascii_lowercase(e[1]) = to_ascii_lowercase(key)
    THEN [some |-> TRUE,
          val |-> (CHOOSE e \in TZ_DATA :
                      to_ascii_lowercase(e[1]) = to_ascii_lowercase(key))[2]]
    ELSE [some |-> FALSE, val |-> 0]

\* HashMap::get: the entry whose key equals the text, character for character
TzGet(key) ==
    IF key \in TzKeys
    THEN [some |-> TRUE, val |-> (CHOOSE e \in TZ_DATA : e[1] = key)[2]]
    ELSE [some |-> FALSE, val |-> 0]

(***************************************************************************)
(* Results                                                                 *)
(***************************************************************************)
NoDateTime ==
    [year |-> 0, month |-> 0, day |-> 0, hour |-> 0, minute |-> 0,
     second |-> 0, offset |-> 0]

NoResult == [kind |-> "none", msg |-> "", text |-> <<>>, value |-> NoDateTime]

\* Err(ParsingError::new(msg)); text is the token the message quotes
Err(msg, text) ==
    [kind |-> "err", msg |-> msg, text |-> text, value |-> NoDateTime]

\* a panic unwinding out of consume_datetime
Panic(msg) ==
    [kind |-> "panic", msg |-> msg, text |-> <<>>, value |-> NoDateTime]

Ok(v) == [kind |-> "ok", msg |-> "", text |-> <<>>, value |-> v]

(***************************************************************************)
(* The sub-parsers of Rfc822DateParser                                     *)
(***************************************************************************)
consume_u32(t, p) ==
    LET w == consume_word(t, p)
        n == ParseU32(w.word)
    IN  IF w.some /\ n.ok
        THEN [some |-> TRUE, val |-> [hi |-> n.hi, lo |-> n.lo], pos |-> w.pos]
        ELSE [some |-> FALSE, val |-> U32(0), pos |-> w.pos]

NoTime == [hour |-> U32(0), minute |-> U32(0), second |-> U32(0)]

\* The optional seconds: consume_u32 is tried only after a ':', and
\* unwrap_or(0) turns both "no ':'" and "no number after ':'" into 0.
consume_seconds(t, p) ==
    IF assert_char(t, p, ":")
    THEN LET n == consume_u32(t, consume_char(t, p))
         IN  [val |-> IF n.some THEN n.val ELSE U32(0), pos |-> n.pos]
    ELSE [val |-> U32(0), pos |-> p]

consume_time(t, p) ==
    LET hour == consume_u32(t, p)
    IN  IF ~hour.some
        THEN [ok |-> FALSE, time |-> NoTime, pos |-> hour.pos,
              err |-> Err("Failed to parse time: Expected hour, a number.", <<>>)]
        ELSE IF ~assert_char(t, hour.pos, ":")
        THEN [ok |-> FALSE, time |-> NoTime, pos |-> hour.pos,
              err |-> Err("assert_char", <<":">>)]
        ELSE
        LET minute == consume_u32(t, consume_char(t, hour.pos))
        IN  IF ~minute.some
            THEN [ok |-> FALSE, time |-> NoTime, pos |-> minute.pos,
                  err |-> Err("Failed to parse time: Expected minute.", <<>>)]
            ELSE
            LET second == consume_seconds(t, minute.pos)
            IN  [ok |-> TRUE, pos |-> second.pos, err |-> NoResult,
                 time |-> [hour |-> hour.val, minute |-> minute.val,
                           second |-> second.val]]

\* The token with one leading '+' taken off
s_slice(w) == IF w # <<>> /\ Head(w) = "+" THEN Tail(w) ELSE w

\* offset_hours with the quotient rounded down instead of toward zero
offset_hours_floor(n) == n \div 100

offset_hours(n) == TruncDiv(n, 100)

offset_mins(n) == TruncRem(n, 100)

\* The two's complement negation of a u32
NegU32(v) ==
    IF v.lo = 0 THEN [hi |-> (65536 - v.hi) % 65536, lo |-> 0]
    ELSE [hi |-> 65535 - v.hi, lo |-> 65536 - v.lo]

Abs(a) == IF a < 0 THEN -a ELSE a

\* offset_hours * 3600 + offset_mins * 60 in i32.  The two terms have the
\* same sign, so the sum is out of range exactly when some step overflows:
\* a build with overflow checks panics there, a build without wraps.
OffsetSeconds(h, m) ==
    LET low  == (Abs(h) % 65536) * 3600 + Abs(m) * 60
        high == (Abs(h) \div 65536) * 3600 + low \div 65536
        neg  == h < 0 \/ m < 0
        mag  == [hi |-> high % 65536, lo |-> low % 65536]
        fits == high < 32768 \/ (neg /\ high = 32768 /\ low % 65536 = 0)
    IN  IF fits
        THEN {[kind |-> "ok", val |-> h * 3600 + m * 60]}
        ELSE {[kind |-> "panic", val |-> 0],
              [kind |-> "ok", val |-> AsI32(IF neg THEN NegU32(mag) ELSE mag)]}

\* The lookup of a token that is not an integer
TzLookup(w) ==
    LET z == TzGet(s_slice(w))
    IN  IF z.some THEN [kind |-> "ok", val |-> z.val, err |-> NoResult]
        ELSE [kind |-> "err", val |-> 0,
              err |-> Err("Invalid timezone: {}", s_slice(w))]

\* The outcomes of consume_timezone_offset at offset p
consume_timezone_offset(t, p) ==
    LET w == consume_word(t, p)
        n == ParseI32(s_slice(w.word))
    IN  IF ~w.some
        THEN {[kind |-> "err", val |-> 0, pos |-> w.pos,
               err |-> Err("Expected timezone offset.", <<>>)]}
        ELSE IF n.ok
        THEN {[kind |-> o.kind, val |-> o.val, pos |-> w.pos,
               err |-> IF o.kind = "panic"
                       THEN Panic("attempt to multiply with overflow")
                       ELSE NoResult]
              : o \in OffsetSeconds(offset_hours(n.val), offset_mins(n.val))}
        ELSE {[kind |-> TzLookup(w.word).kind, val |-> TzLookup(w.word).val,
               pos |-> w.pos, err |-> TzLookup(w.word).err]}

consume_month(t, p) ==
    LET w == consume_word(t, p)
        lower_month == to_ascii_lowercase(w.word)
    IN  IF ~w.some
        THEN [ok |-> FALSE, val |-> 0, pos |-> w.pos,
              err |-> Err("Expected month.", <<>>)]
        ELSE IF \E k \in 1..12 : MONTHS[k] = lower_month
        THEN [ok |-> TRUE, pos |-> w.pos, err |-> NoResult,
              val |-> (CHOOSE k \in 1..12 : MONTHS[k] = lower_month)]
        ELSE [ok |-> FALSE, val |-> 0, pos |-> w.pos,
              err |-> Err("Invalid month: {}", lower_month)]

\* consume_day_of_week comparing the word as written, not its lowercase
consume_day_of_week_exact(t, p, stack) ==
    LET pushed == push_position(p, stack)
        day_of_week == consume_word(t, p)
    IN  IF day_of_week.some /\ day_of_week.word \in DAYS_OF_WEEK
        THEN [pos |-> consume_while(t, day_of_week.pos, {","} \cup Whitespace),
              pos_stack |-> pushed]
        ELSE pop_position(pushed)

\* The optional day of week and its ","
consume_day_of_week(t, p, stack) ==
    LET pushed == push_position(p, stack)
        day_of_week == consume_word(t, p)
        lower_dow == to_ascii_lowercase(day_of_week.word)
    IN  IF day_of_week.some /\ lower_dow \in DAYS_OF_WEEK
        THEN [pos |-> consume_while(t, day_of_week.pos, {","} \cup Whitespace),
              pos_stack |-> pushed]
        ELSE pop_position(pushed)

\* century with the 49/50 split one too high
century_split_at_51(n) ==
    IF Small(n) /\ n.lo <= 50 THEN U32(n.lo + 2000)
    ELSE IF Small(n) /\ n.lo <= 999 THEN U32(n.lo + 1900)
    ELSE n

\* The obsolete year forms of RFC 5322 4.3
century(n) ==
    IF Small(n) /\ n.lo <= 49 THEN U32(n.lo + 2000)
    ELSE IF Small(n) /\ n.lo <= 999 THEN U32(n.lo + 1900)
    ELSE n


(***************************************************************************)
(* chrono, as consume_datetime uses it: FixedOffset::east, TimeZone::ymd   *)
(* and Date::and_hms panic on what they cannot represent.                  *)
(***************************************************************************)
is_leap_year(y) == y % 4 = 0 /\ (y % 100 # 0 \/ y % 400 = 0)

days_in_month(y, m) ==
    IF m = 2 THEN (IF is_leap_year(y) THEN 29 ELSE 28)
    ELSE IF m \in {4, 6, 9, 11} THEN 30 ELSE 31

\* FixedOffset::east: the offset is within a day, both ends excluded
valid_offset(secs) == -86400 < secs /\ secs < 86400

\* NaiveDate::from_ymd_opt: a day of the proleptic Gregorian calendar, in the
\* years chrono represents
valid_date(y, m, d) ==
    /\ -262144 <= y /\ y <= 262143
    /\ m \in 1..12
    /\ Small(d) /\ 1 <= d.lo /\ d.lo <= days_in_month(y, m)

\* NaiveTime::from_hms_opt
valid_time(tm) ==
    /\ Small(tm.hour) /\ tm.hour.lo < 24
    /\ Small(tm.minute) /\ tm.minute.lo < 60
    /\ Small(tm.second) /\ tm.second.lo < 60

\* The local time less the offset is the instant kept; it must still be a
\* date chrono represents.
instant_in_range(y, m, d, tm, secs) ==
    LET utc == tm.hour.lo * 3600 + tm.minute.lo * 60 + tm.second.lo - secs
    IN  /\ ~(y = 262143 /\ m = 12 /\ d.lo = 31 /\ utc >= 86400)
        /\ ~(y = -262144 /\ m = 1 /\ d.lo = 1 /\ utc < 0)

\* FixedOffset::east(tz_offset).ymd(year as i32, month, day_of_month)
\*     .and_hms(hour, minute, second)
construct(tz, yr, mon, day, tm) ==
    LET y == AsI32(yr)
    IN  IF ~valid_offset(tz) THEN Panic("FixedOffset::east out of bounds")
        ELSE IF ~valid_date(y, mon, day) THEN Panic("invalid or out-of-range date")
        ELSE IF ~valid_time(tm) THEN Panic("invalid time")
        ELSE IF ~instant_in_range(y, mon, day, tm, tz)
        THEN Panic("NaiveDateTime - Duration overflowed")
        ELSE Ok([year |-> y, month |-> mon, day |-> day.lo,
                 hour |-> tm.hour.lo, minute |-> tm.minute.lo,
                 second |-> tm.second.lo, offset |-> tz])

(***************************************************************************)
(* consume_datetime, one step per grammar element.  A frame is the cursor, *)
(* the position stack and the locals of one call.                          *)
(***************************************************************************)
Fresh(p, stack) ==
    [pos |-> p, pos_stack |-> stack, pc |-> "day_of_week",
     day_of_month |-> U32(0), month |-> 0, i |-> U32(0), year |-> U32(0),
     time |-> NoTime, tz_offset |-> 0, result |-> NoResult]

Return(f, p, r) ==
    [f EXCEPT !.pos = p, !.result = r,
              !.pc = IF r.kind = "panic" THEN "panicked" ELSE "returned"]

StepDayOfWeek(t, f) ==
    LET r == consume_day_of_week(t, f.pos, f.pos_stack)
    IN  [f EXCEPT !.pos = r.pos, !.pos_stack = r.pos_stack, !.pc = "day_of_month"]

StepDayOfMonth(t, f) ==
    LET n == consume_u32(t, f.pos)
    IN  IF n.some
        THEN [f EXCEPT !.day_of_month = n.val, !.pc = "month",
                       !.pos = consume_linear_whitespace(t, n.pos)]
        ELSE Return(f, n.pos, Err("Expected day of month, a number.", <<>>))

StepMonth(t, f) ==
    LET m == consume_month(t, f.pos)
    IN  IF m.ok
        THEN [f EXCEPT !.month = m.val, !.pc = "year",
                       !.pos = consume_linear_whitespace(t, m.pos)]
        ELSE Return(f, m.pos, m.err)

StepYear(t, f) ==
    LET n == consume_u32(t, f.pos)
    IN  IF n.some
        THEN [f EXCEPT !.i = n.val, !.year = century(n.val), !.pc = "time",
                       !.pos = consume_linear_whitespace(t, n.pos)]
        ELSE Return(f, n.pos, Err("Expected year.", <<>>))

StepTime(t, f) ==
    LET r == consume_time(t, f.pos)
    IN  IF r.ok
        THEN [f EXCEPT !.time = r.time, !.pc = "timezone",
                       !.pos = consume_linear_whitespace(t, r.pos)]
        ELSE Return(f, r.pos, r.err)

StepTimezone(t, f) ==
    {IF o.kind = "ok"
     THEN [f EXCEPT !.tz_offset = o.val, !.pc = "construct", !.pos = o.pos]
     ELSE Return(f, o.pos, o.err) : o \in consume_timezone_offset(t, f.pos)}

StepConstruct(f) ==
    Return(f, f.pos, construct(f.tz_offset, f.year, f.month, f.day_of_month, f.time))

Steps(t, f) ==
    CASE f.pc = "day_of_week"  -> {StepDayOfWeek(t, f)}
      [] f.pc = "day_of_month" -> {StepDayOfMonth(t, f)}
      [] f.pc = "month"        -> {StepMonth(t, f)}
      [] f.pc = "year"         -> {StepYear(t, f)}
      [] f.pc = "time"         -> {StepTime(t, f)}
      [] f.pc = "timezone"     -> StepTimezone(t, f)
      [] f.pc = "construct"    -> {StepConstruct(f)}
      [] OTHER                 -> {}

\* The frames in which a call stands at `stage`, or has ended before it
RECURSIVE Until(_, _, _)
Until(t, f, stage) ==
    IF f.pc \in {stage, "returned", "panicked"} THEN {f}
    ELSE UNION {Until(t, n, stage) : n \in Steps(t, f)}

Finish(t, f) == Until(t, f, "returned")

\* The outcomes of one whole consume_datetime call on text t, from offset p
consume_datetime(t, p, stack) == Finish(t, Fresh(p, stack))

(***************************************************************************)
(* Inputs                                                                  *)
(***************************************************************************)
MaxCalls == 2

Prefixes ==
    {<<>>, <<"M", "o", "n", ",", " ">>, <<"s", "U", "N", ",">>, <<"X", "y", "z", ",", " ">>}

Days ==
    {<<"2", "0">>, <<"3", "1">>, <<>>}

MonthWords ==
    {<<"J", "u", "n">>, <<"f", "E", "B">>, <<"F", "o", "o">>}

YearWords ==
    {<<"1", "9", "8", "2">>, <<"4", "9">>,
     <<"5", "0">>, <<"9", "9", "9">>,
     <<"1", "0", "0", "0">>, <<"4", "2", "9", "4", "9", "6", "7", "2", "9", "5">>,
     <<"4", "2", "9", "4", "9", "6", "7", "2", "9", "6">>, <<"2", "6", "2", "1", "4", "4">>,
     <<"x">>}

TimeWords ==
    {<<"1", "0", ":", "0", "1", ":", "5", "9">>, <<"1", "0", ":", "0", "1">>,
     <<"1", "0", ":", "0", "1", ":", "0", "0">>, <<"1", "0", "0", "1", ":", "5", "9">>,
     <<"1", "0", ":", "0", "1", ":", "x", "x">>, <<"1", "0", ":", "0", "1", ":">>,
     <<"1", "0", "0", "1">>, <<"1", "0", ":">>,
     <<"x", ":", "0", "1">>}

ZoneWords ==
    {<<"E", "D", "T">>, <<"+", "0", "5", "4", "5">>, <<"-", "0", "4", "3", "0">>,
     <<"+", "0", "1", "0", "0">>, <<"-", "0", "4", "0", "0">>, <<"+", "E", "D", "T">>,
     <<"e", "d", "t">>, <<"X", "Y", "Z">>, <<"+", "9", "9", "0", "0">>}

\* The words that are present, one space between two of them
RECURSIVE JoinWords(_)
JoinWords(ws) ==
    IF ws = <<>> THEN <<>>
    ELSE IF Head(ws) = <<>> THEN JoinWords(Tail(ws))
    ELSE IF JoinWords(Tail(ws)) = <<>> THEN Head(ws)
    ELSE Head(ws) \o <<" ">> \o JoinWords(Tail(ws))

\* A date-time text, whole or cut after its first n elements
Inputs ==
    {p \o JoinWords(SubSeq(<<d, m, y, t, z>>, 1, n)) :
        p \in Prefixes, d \in Days, m \in MonthWords, y \in YearWords,
        t \in TimeWords, z \in ZoneWords, n \in 0..5}

(***************************************************************************)
(* The state machine                                                       *)
(***************************************************************************)
Frame ==
    [pos |-> pos, pos_stack |-> pos_stack, pc |-> pc,
     day_of_month |-> day_of_month, month |-> month, i |-> i, year |-> year,
     time |-> time, tz_offset |-> tz_offset, result |-> result]

Becomes(f) ==
    /\ pos' = f.pos
    /\ pos_stack' = f.pos_stack
    /\ pc' = f.pc
    /\ day_of_month' = f.day_of_month
    /\ month' = f.month
    /\ i' = f.i
    /\ year' = f.year
    /\ time' = f.time
    /\ tz_offset' = f.tz_offset
    /\ result' = f.result
    /\ UNCHANGED <<s, calls>>

Holds(f) ==
    /\ pos = f.pos
    /\ pos_stack = f.pos_stack
    /\ pc = f.pc
    /\ day_of_month = f.day_of_month
    /\ month = f.month
    /\ i = f.i
    /\ year = f.year
    /\ time = f.time
    /\ tz_offset = f.tz_offset
    /\ result = f.result

\* Rfc822DateParser::new(text)
New(text) ==
    /\ s = text
    /\ calls = 0
    /\ Holds([Fresh(0, <<>>) EXCEPT !.pc = "new"])

Init == \E text \in Inputs : New(text)

\* consume_datetime is entered, on a new parser or on one used before
Call ==
    /\ pc \in {"new", "returned"}
    /\ calls < MaxCalls
    /\ calls' = calls + 1
    /\ pc' = "day_of_week"
    /\ day_of_month' = U32(0)
    /\ month' = 0
    /\ i' = U32(0)
    /\ year' = U32(0)
    /\ time' = NoTime
    /\ tz_offset' = 0
    /\ result' = NoResult
    /\ UNCHANGED <<s, pos, pos_stack>>

DayOfWeek == pc = "day_of_week" /\ Becomes(StepDayOfWeek(s, Frame))

DayOfMonth == pc = "day_of_month" /\ Becomes(StepDayOfMonth(s, Frame))

Month == pc = "month" /\ Becomes(StepMonth(s, Frame))

Year == pc = "year" /\ Becomes(StepYear(s, Frame))

Time == pc = "time" /\ Becomes(StepTime(s, Frame))

Timezone == pc = "timezone" /\ \E f \in StepTimezone(s, Frame) : Becomes(f)

Construct == pc = "construct" /\ Becomes(StepConstruct(Frame))

Next ==
    \/ Call
    \/ DayOfWeek
    \/ DayOfMonth
    \/ Month
    \/ Year
    \/ Time
    \/ Timezone
    \/ Construct

Spec == Init /\ [][Next]_vars


(***************************************************************************)
(* consume_timezone_offset on its own: the parser stands at the zone of a  *)
(* date-time whose other elements are fixed.                               *)
(***************************************************************************)
ZoneBase ==
    <<"2", "0", " ", "J", "u", "n", " ", "1", "9", "8", "2", " ",
     "1", "0", ":", "0", "1", ":", "5", "9", " ">>

\* sign HH MM, HH in 00..23 and MM in 00..59
NumericZones ==
    {<<sg, DigitChars[(h \div 10) + 1], DigitChars[(h % 10) + 1],
       DigitChars[(m \div 10) + 1], DigitChars[(m % 10) + 1]>> :
        sg \in {"+", "-"}, h \in 0..23, m \in 0..59}

OtherZones ==
    {<<"X", "Y", "Z">>, <<"A">>, <<"-", "E", "D", "T">>, <<"+", "+", "0", "5", "4", "5">>,
     <<"+", "-", "0", "5", "4", "5">>, <<"+", "9", "9", "0", "0">>, <<"-", "9", "9", "5", "9">>, <<"+", "1", "1", "9", "3", "0", "4", "6", "2", "8">>,
     <<"0", "5", "4", "5">>, <<"+">>, <<"-">>, <<"+", "0", "5", ":", "4", "5">>,
     <<"E", "D", "T", "X">>, <<"+", "2", "4", "0", "0">>, <<"-", "0", "0", "6", "0">>, <<>>, <<":">>}

ZoneTokens ==
    NumericZones \cup OtherZones \cup TzKeys
        \cup {<<"+">> \o k : k \in TzKeys}
        \cup {to_ascii_lowercase(k) : k \in TzKeys}
        \cup {<<"+">> \o to_ascii_lowercase(k) : k \in TzKeys}

InitTz ==
    \E z \in ZoneTokens :
        \E f \in Until(ZoneBase \o z, Fresh(0, <<>>), "timezone") :
            s = ZoneBase \o z /\ calls = 1 /\ Holds(f)

NextTz ==
    \/ Timezone
    \/ Construct

SpecTz == InitTz /\ [][NextTz]_vars

\* The zone token of a SpecTz input: the word after the time of day
ZoneToken == consume_word(s, Len(ZoneBase)).word

(***************************************************************************)
(* The optional day of week: every day name, in three letter cases, and    *)
(* words that are no day name, before date-times that parse and that fail. *)
(***************************************************************************)
DaySpellings ==
    {<<"m", "o", "n">>, <<"t", "u", "e">>, <<"w", "e", "d">>, <<"t", "h", "u">>, <<"f", "r", "i">>, <<"s", "a", "t">>, <<"s", "u", "n">>,
     <<"M", "O", "N">>, <<"T", "U", "E">>, <<"W", "E", "D">>, <<"T", "H", "U">>, <<"F", "R", "I">>, <<"S", "A", "T">>, <<"S", "U", "N">>,
     <<"M", "o", "n">>, <<"T", "u", "e">>, <<"W", "e", "d">>, <<"T", "h", "u">>, <<"F", "r", "i">>, <<"S", "a", "t">>, <<"S", "u", "n">>,
     <<"s", "U", "N">>, <<"m", "O", "n">>}

OtherFirstWords ==
    {<<"X", "y", "z">>, <<"M", "o">>, <<"M", "o", "n", "d", "a", "y">>, <<"+", "2", "0">>}

DaySeparators ==
    {<<",", " ">>, <<",">>, <<" ">>, <<" ", ",", " ">>}

DowYears ==
    {<<"1", "9", "8", "2">>, <<"4", "9">>}

DowTimes ==
    {<<"1", "0", ":", "0", "1", ":", "5", "9">>, <<"1", "0", ":", "0", "1">>, <<"1", "0", "0", "1", ":", "5", "9">>}

DowZones ==
    {<<"E", "D", "T">>, <<"-", "0", "4", "3", "0">>, <<"X", "Y", "Z">>}

Bodies ==
    {JoinWords(<<d, m, y, t, z>>) :
        d \in Days, m \in MonthWords, y \in DowYears, t \in DowTimes,
        z \in DowZones}

DowInputs ==
    Bodies \cup {w \o sep \o b :
                    w \in DaySpellings \cup OtherFirstWords,
                    sep \in DaySeparators, b \in Bodies}

InitDow == \E text \in DowInputs : New(text)

SpecDow == InitDow /\ [][Next]_vars


(***************************************************************************)
(* Properties                                                              *)
(***************************************************************************)
Ended == pc \in {"returned", "panicked"}

AllDigits(w) == w # <<>> /\ \A k \in 1..Len(w) : w[k] \in Digits

TwoDigits(w, k) == 10 * DigitVal(w[k]) + DigitVal(w[k + 1])

\* C1: every consume_datetime call ends by returning a date-time or a parse
\* error, and numeric fields that form no real date, time or offset give a
\* parse error: no call aborts, and no success value holds unreal fields.
C1_ExplicitResult ==
    /\ pc # "panicked"
    /\ result.kind # "panic"
    /\ pc = "returned" => result.kind \in {"ok", "err"}
    /\ result.kind = "ok" =>
          /\ valid_offset(tz_offset)
          /\ valid_date(AsI32(year), month, day_of_month)
          /\ valid_time(time)

SignedHHMM(z) ==
    /\ Len(z) = 5
    /\ z[1] \in {"+", "-"}
    /\ AllDigits(Tail(z))
    /\ TwoDigits(z, 2) <= 23
    /\ TwoDigits(z, 4) <= 59

ZoneSeconds(z) ==
    (IF z[1] = "-" THEN -1 ELSE 1)
        * (TwoDigits(z, 2) * 3600 + TwoDigits(z, 4) * 60)

\* C2: for a zone token sign HH MM with HH in 00..23 and MM in 00..59,
\* consume_timezone_offset returns sign * (HH * 3600 + MM * 60) seconds, and
\* the date-time built from it carries that offset.
C2_NumericZoneOffset ==
    (pc # "timezone" /\ SignedHHMM(ZoneToken)) =>
        /\ tz_offset = ZoneSeconds(ZoneToken)
        /\ result.kind \in {"none", "ok"}
        /\ result.kind = "ok" => result.value.offset = ZoneSeconds(ZoneToken)

C2_Witness ==
    /\ pc = "construct"
    /\ ZoneToken = <<"-", "0", "4", "3", "0">>
    /\ tz_offset = -16200

StrippedZone ==
    IF ZoneToken # <<>> /\ Head(ZoneToken) = "+" THEN Tail(ZoneToken)
    ELSE ZoneToken

\* What a lookup of key in the zone table must give
LookedUp(key) ==
    IF \E e \in TZ_DATA : e[1] = key
    THEN /\ \E e \in TZ_DATA : e[1] = key /\ tz_offset = e[2]
         /\ result.kind \in {"none", "ok"}
         /\ key = <<"E", "D", "T">> => tz_offset = -14400
    ELSE /\ pc = "returned"
         /\ result.kind = "err"
         /\ result.msg = "Invalid timezone: {}"

\* C3 as amended: a zone token that is no base-10 integer after one leading
\* '+' is taken off is looked up, exactly and case-sensitively, as the text
\* left after that '+' is taken off: a hit gives the entry's offset, a miss an
\* invalid-timezone error naming that text.
C3_LookupOfStrippedToken ==
    (pc # "timezone" /\ ZoneToken # <<>> /\ ~ParseI32(StrippedZone).ok) =>
        /\ LookedUp(StrippedZone)
        /\ result.kind = "err" => result.text = StrippedZone

C3_Witness ==
    /\ pc = "construct"
    /\ ZoneToken = <<"+", "E", "D", "T">>
    /\ tz_offset = -14400

\* C3 as stated: the lookup is of the original, unstripped token, so a table
\* key preceded by '+' fails with an invalid-timezone error.
C3_LookupOfOriginalToken ==
    (pc # "timezone" /\ ZoneToken # <<>> /\ ~ParseI32(StrippedZone).ok) =>
        LookedUp(ZoneToken)

\* C4 as stated: year token 49 gives the year 2049, 50 gives 1950, 999 gives
\* 1999 and 1000 gives 1000.
C4_YearBoundaries ==
    /\ i = U32(49) =>
          year = U32(2049) /\ (result.kind = "ok" => result.value.year = 2049)
    /\ i = U32(50) =>
          year = U32(1950) /\ (result.kind = "ok" => result.value.year = 1950)
    /\ i = U32(999) =>
          year = U32(1999) /\ (result.kind = "ok" => result.value.year = 1999)
    /\ i = U32(1000) =>
          year = U32(1000) /\ (result.kind = "ok" => result.value.year = 1000)

\* C4 as amended: year token 49 gives the year 2049, 50 gives 1950, 999 gives
\* 2899 (1900 is added to every token of 50 .. 999) and 1000 gives 1000.
C4_YearBoundariesAmended ==
    /\ i = U32(49) =>
          year = U32(2049) /\ (result.kind = "ok" => result.value.year = 2049)
    /\ i = U32(50) =>
          year = U32(1950) /\ (result.kind = "ok" => result.value.year = 1950)
    /\ i = U32(999) =>
          year = U32(2899) /\ (result.kind = "ok" => result.value.year = 2899)
    /\ i = U32(1000) =>
          year = U32(1000) /\ (result.kind = "ok" => result.value.year = 1000)

C4_Witness ==
    /\ pc = "returned"
    /\ result.kind = "ok"
    /\ i = U32(999)
    /\ result.value.year = 2899

\* C5: for every year token value v of 0 .. 2^32 - 1, a date-time that is
\* returned has the year 2000 + v for v <= 49, 1900 + v for 50 <= v <= 999
\* and v itself for v >= 1000.
C5_YearOfEveryToken ==
    result.kind = "ok" =>
        IF Small(i) /\ i.lo <= 49 THEN result.value.year = 2000 + i.lo
        ELSE IF Small(i) /\ i.lo <= 999 THEN result.value.year = 1900 + i.lo
        ELSE /\ i.hi < 32768
             /\ result.value.year = i.hi * 65536 + i.lo

\* A time of day whose hour and minute digits have no ':' between them: the
\* hour word is not followed by ':', or it is the four digits HHMM and the
\* only ':' of the time is before the seconds.
UnseparatedTime(t, p) ==
    LET h == consume_word(t, p)
        n == consume_word(t, h.pos + 1)
    IN  /\ AllDigits(h.word)
        /\ \/ ~assert_char(t, h.pos, ":")
           \/ /\ Len(h.word) = 4
              /\ TwoDigits(h.word, 1) <= 23
              /\ TwoDigits(h.word, 3) <= 59
              /\ AllDigits(n.word)
              /\ ~assert_char(t, n.pos, ":")

\* C6: a time of day whose hour and minute digits are not separated by ':'
\* makes consume_datetime return the malformed-separator error.
C6_UnseparatedTimeFails ==
    [][(pc = "time" /\ UnseparatedTime(s, pos)) =>
          /\ pc' = "returned"
          /\ result'.kind = "err"
          /\ result'.msg = "assert_char"]_vars

UpperOf(c) ==
    IF \E k \in 1..26 : LowerChars[k] = c
    THEN UpperChars[CHOOSE k \in 1..26 : LowerChars[k] = c]
    ELSE c

IsDayName(w) ==
    \E d \in DAYS_OF_WEEK :
        /\ Len(w) = Len(d)
        /\ \A k \in 1..Len(d) : w[k] \in {d[k], UpperOf(d[k])}

\* The first call on "D, T" has ended as the call on T alone ends, for a day
\* name D and a text T that parses.
PrefixIgnored ==
    LET w     == consume_word(s, 0)
        T     == Slice(s, w.pos + 2, Len(s))
        alone == consume_datetime(T, 0, <<>>)
    IN  (/\ calls = 1
         /\ Ended
         /\ IsDayName(w.word)
         /\ Len(s) >= w.pos + 2
         /\ s[w.pos + 1] = ","
         /\ s[w.pos + 2] = " "
         /\ \A f \in alone : f.result.kind = "ok") =>
            /\ pc = "returned"
            /\ \A f \in alone : result = f.result

\* A first word that is no day name leaves the cursor and the stack as they
\* were when the call began.
RolledBack ==
    (pc = "day_of_week" /\ ~IsDayName(consume_word(s, pos).word)) =>
        /\ pos' = pos
        /\ pos_stack' = pos_stack
        /\ pc' = "day_of_month"

\* C7: "D, T" parses to the date-time of T for every day name D in any
\* letter case and every T that parses, and a first word that is no day name
\* is rolled back, to be read again as the day of month.
C7_DayOfWeekIgnored == []PrefixIgnored /\ [][RolledBack]_vars

C7_Witness ==
    /\ calls = 1
    /\ pc = "returned"
    /\ result.kind = "ok"
    /\ consume_word(s, 0).word = <<"T", "U", "E">>
    /\ pos_stack = <<0>>

\* C8: without a ':' after the minute the second is 0; with one, the second
\* is the decimal value of the token after it, which is a number.
C8_SecondsAsWritten ==
    [][(pc = "time" /\ pc' = "timezone") =>
          LET h   == consume_word(s, pos)
              m   == consume_word(s, h.pos + 1)
              sec == consume_word(s, m.pos + 1)
          IN  IF assert_char(s, m.pos, ":")
              THEN /\ sec.some
                   /\ ParseU32(sec.word).ok
                   /\ time'.second.hi = ParseU32(sec.word).hi
                   /\ time'.second.lo = ParseU32(sec.word).lo
              ELSE time'.second = U32(0)]_vars

\* C9: the position stack is empty whenever a consume_datetime call has
\* completed.
C9_StackEmptyAfterCall == pc = "returned" => pos_stack = <<>>

\* The end of the run of non-blank characters at offset p
ElementEnd(t, p) == consume_while(t, p, AtomChars \cup {",", ":"})

NumberAt(t, p) == ParseU32(consume_word(t, p).word).ok

MonthAt(t, p) ==
    \E k \in 1..12 :
        /\ Len(consume_word(t, p).word) = 3
        /\ \A j \in 1..3 :
              consume_word(t, p).word[j] \in {MONTHS[k][j], UpperOf(MONTHS[k][j])}

ZoneAt(t, p) ==
    LET w == consume_word(t, p).word
        z == IF w # <<>> /\ Head(w) = "+" THEN Tail(w) ELSE w
    IN  ParseI32(z).ok \/ z \in TzKeys

\* The first element of the time of day at offset p that is missing or
\* malformed, "" when there is none
TimeFault(t, p) ==
    LET h   == consume_word(t, p)
        m   == consume_word(t, h.pos + 1)
        sec == consume_word(t, m.pos + 1)
    IN  IF ~ParseU32(h.word).ok THEN "hour"
        ELSE IF ~assert_char(t, h.pos, ":") THEN "separator"
        ELSE IF ~ParseU32(m.word).ok THEN "minute"
        ELSE IF assert_char(t, m.pos, ":") /\ ~ParseU32(sec.word).ok THEN "second"
        ELSE ""

Stopped(msgs) ==
    /\ pc' = "returned"
    /\ result'.kind = "err"
    /\ result'.msg \in msgs
    /\ result'.value = NoDateTime
    /\ pos' <= ElementEnd(s, pos)

\* C10: the elements are recognized in the order day of month, month, year,
\* hour, ':', minute, optional ':' second, timezone; the first one that is
\* missing or malformed ends the call with that element's error, nothing
\* after it consumed and no date-time returned.
C10_FirstFailureStops ==
    [][/\ (pc = "day_of_month" /\ ~NumberAt(s, pos)) =>
              Stopped({"Expected day of month, a number."})
       /\ (pc = "month" /\ ~MonthAt(s, pos)) =>
              Stopped({"Expected month.", "Invalid month: {}"})
       /\ (pc = "year" /\ ~NumberAt(s, pos)) => Stopped({"Expected year."})
       /\ (pc = "time" /\ TimeFault(s, pos) = "hour") =>
              Stopped({"Failed to parse time: Expected hour, a number."})
       /\ (pc = "time" /\ TimeFault(s, pos) = "separator") =>
              Stopped({"assert_char"})
       /\ (pc = "time" /\ TimeFault(s, pos) = "minute") =>
              Stopped({"Failed to parse time: Expected minute."})
       /\ (pc = "time" /\ TimeFault(s, pos) = "second") =>
              (pc' = "returned" /\ result'.kind = "err" /\ pos' <= ElementEnd(s, pos))
       /\ (pc = "timezone" /\ ~ZoneAt(s, pos)) =>
              Stopped({"Expected timezone offset.", "Invalid timezone: {}"})
       /\ pc = "day_of_month" => pc' \in {"month", "returned"}
       /\ pc = "month" => pc' \in {"year", "returned"}
       /\ pc = "year" => pc' \in {"time", "returned"}
       /\ pc = "time" => pc' \in {"timezone", "returned"}]_vars

=============================================================================
